---- MODULE Spec2Model ----
(***************************************************************************)
(* Service desk automation: ticket store, lifecycle handlers, resolution   *)
(* policy, assignment router, SLA calculator and the periodic SLA sweep.   *)
(*                                                                         *)
(* Time is counted in quarter hours (Hour == 4), the coarsest unit in      *)
(* which the 30 minute near-breach threshold and the whole-hour SLA        *)
(* windows are both integers with a value strictly between 0 and the       *)
(* threshold.  The wall clock `now` is assumed not to run backwards.       *)
(***************************************************************************)
EXTENDS Integers, Sequences, FiniteSets, TLC

(* ------------------------------ bounds --------------------------------- *)
\* most tickets the store holds in the lifecycle specifications
MaxTickets == 2
\* last clock reading of the lifecycle specifications
MaxTime == 2
\* most tickets the store holds in the clock specification
MaxClockTickets == 1

\* quarter hours that pass between two store calls of one handler
Elapsed == {0, 1}

(* --------------------------- time arithmetic --------------------------- *)
\* quarter hours per hour: the unit of every timedelta below
Hour == 4

timedelta_hours(h) == h * Hour

timedelta_minutes(m) == (m * Hour) \div 60

timedelta_days(d) == d * 24 * Hour

\* datetime.isoformat(): the TEXT the store keeps for an instant
isoformat(t) == [valid |-> TRUE, at |-> t]

\* a TEXT that datetime.fromisoformat() rejects
Unparsable == [valid |-> FALSE, at |-> 0]

\* dict.get(key, default)
Get(d, k, default) == IF k \in DOMAIN d THEN d[k] ELSE default

(* ------------------------------ config --------------------------------- *)
SLA_RESPONSE_HOURS == [High |-> 1, Medium |-> 4, Low |-> 24]

SLA_RESOLUTION_HOURS == [High |-> 4, Medium |-> 24, Low |-> 72]

TEAM_ASSIGNMENTS ==
    ("Access Issue" :> "identity-team@example.com") @@
    ("Infrastructure" :> "infra-team@example.com") @@
    ("Email" :> "messaging-team@example.com") @@
    ("Software" :> "desktop-team@example.com") @@
    ("Networking" :> "network-team@example.com") @@
    ("General" :> "helpdesk@example.com")

(* ------------------------------- state --------------------------------- *)
VARIABLES
    tickets,    \* the tickets table: row i has id i (AUTOINCREMENT, no DELETE)
    now,        \* the wall clock, in quarter hours
    response,   \* what the last request handler returned
    sent,       \* the notifier calls the last handler or sweep step made
    emails_file,    \* data/emails.txt: the lines, each a sequence of characters
    processed_file, \* data/processed_emails.txt: the hashes written so far
    snapshot,   \* the check_sla_status calls of the last ticket-detail or
                \* tickets-page request: per call the row, the clock it read
                \* and the snapshot it returned
    sweep,      \* the SLA check in progress: its position and its local lists
    smtp,       \* the mail server as send_email finds it: "up", or "down" when
                \* it is not configured or the SMTP session raises
    inflight,   \* the requests being handled whose store writes are taken one
                \* at a time: per request its handler, the line it is at, the
                \* ticket id, the row it fetched and the priority it was sent
    scheduler   \* the AutomationScheduler singleton: AUTO_PROCESS_ENABLED as
                \* config read it, _started, whether the BackgroundScheduler
                \* runs, its jobs by id, and the atexit registrations made

vars == <<tickets, now, response, sent, emails_file, processed_file, snapshot, sweep,
         smtp, inflight, scheduler>>

files == <<emails_file, processed_file>>

sla_state == <<snapshot, sweep>>

(* -------------------------------- text --------------------------------- *)
\* Free text (sender, subject, body, issue) is a sequence of one-character
\* strings, so that split, strip, lower and substring search are computed.
manual_sender == <<"m", "a", "n", "u", "a", "l", "@", "e", "x", "a", "m", "p", "l", "e", ".", "c", "o", "m">>

test_sender == <<"t", "e", "s", "t", "@", "e", "x", "a", "m", "p", "l", "e", ".", "c", "o", "m">>

\* str.lower(), one character
lower_char(c) ==
    CASE c = "A" -> "a" [] c = "B" -> "b" [] c = "C" -> "c" [] c = "D" -> "d"
      [] c = "E" -> "e" [] c = "F" -> "f" [] c = "G" -> "g" [] c = "H" -> "h"
      [] c = "I" -> "i" [] c = "J" -> "j" [] c = "K" -> "k" [] c = "L" -> "l"
      [] c = "M" -> "m" [] c = "N" -> "n" [] c = "O" -> "o" [] c = "P" -> "p"
      [] c = "Q" -> "q" [] c = "R" -> "r" [] c = "S" -> "s" [] c = "T" -> "t"
      [] c = "U" -> "u" [] c = "V" -> "v" [] c = "W" -> "w" [] c = "X" -> "x"
      [] c = "Y" -> "y" [] c = "Z" -> "z" [] OTHER -> c

lower_text(t) == [i \in 1..Len(t) |-> lower_char(t[i])]

is_space(c) == c \in {" ", "\t", "\n", "\r"}

RECURSIVE lstrip(_)
lstrip(t) == IF t # <<>> /\ is_space(Head(t)) THEN lstrip(Tail(t)) ELSE t

RECURSIVE rstrip(_)
rstrip(t) ==
    IF t # <<>> /\ is_space(t[Len(t)]) THEN rstrip(SubSeq(t, 1, Len(t) - 1)) ELSE t

\* str.strip()
strip(t) == rstrip(lstrip(t))

\* str.split('|'): the parts between the bars, always at least one
RECURSIVE split(_, _)
split(t, part) ==
    IF t = <<>> THEN <<part>>
    ELSE IF Head(t) = "|" THEN <<part>> \o split(Tail(t), <<>>)
    ELSE split(Tail(t), Append(part, Head(t)))

\* t.startswith(k): k at the start of t only
contains_prefix(k, t) == Len(k) <= Len(t) /\ SubSeq(t, 1, Len(k)) = k

\* k in t
contains(k, t) ==
    \E i \in 1..(Len(t) - Len(k) + 1) : SubSeq(t, i, i + Len(k) - 1) = k

(* ----------------------------- classifier ------------------------------ *)
KEYWORD_MAP ==
    <<
      <<<<<<"p", "a", "s", "s", "w", "o", "r", "d">>,
          <<"r", "e", "s", "e", "t">>,
          <<"u", "n", "l", "o", "c", "k">>>>,
        <<"Access Issue", "Low">>>>,
      <<<<<<"v", "p", "n">>,
          <<"c", "o", "n", "n", "e", "c", "t">>,
          <<"c", "a", "n", "n", "o", "t", " ", "c", "o", "n", "n", "e", "c", "t">>,
          <<"n", "e", "t", "w", "o", "r", "k">>>>,
        <<"Networking", "Medium">>>>,
      <<<<<<"s", "e", "r", "v", "e", "r", " ", "d", "o", "w", "n">>,
          <<"d", "o", "w", "n">>,
          <<"o", "u", "t", "a", "g", "e">>,
          <<"u", "n", "r", "e", "a", "c", "h", "a", "b", "l", "e">>>>,
        <<"Infrastructure", "High">>>>,
      <<<<<<"e", "m", "a", "i", "l">>,
          <<"o", "u", "t", "l", "o", "o", "k">>,
          <<"s", "e", "n", "d">>,
          <<"r", "e", "c", "e", "i", "v", "e">>>>,
        <<"Email", "Medium">>>>,
      <<<<<<"i", "n", "s", "t", "a", "l", "l">>,
          <<"s", "o", "f", "t", "w", "a", "r", "e">>,
          <<"u", "p", "g", "r", "a", "d", "e">>>>,
        <<"Software", "Low">>>>
    >>

\* sender|subject|body, missing parts empty
parse_email_line(line) ==
    LET parts == split(line, <<>>) IN
    [sender |-> strip(parts[1]),
     subject |-> IF Len(parts) > 1 THEN strip(parts[2]) ELSE <<>>,
     body |-> IF Len(parts) > 2 THEN strip(parts[3]) ELSE <<>>]

\* the rules from position r on, the last matching rule winning and the last
\* rule's result standing when none matches
classify_from_last(t, r) ==
    LET hit == {q \in r..Len(KEYWORD_MAP) :
                   \E j \in 1..Len(KEYWORD_MAP[q][1]) : contains(KEYWORD_MAP[q][1][j], t)}
    IN  IF hit = {} THEN KEYWORD_MAP[Len(KEYWORD_MAP)][2]
        ELSE KEYWORD_MAP[CHOOSE q \in hit : \A o \in hit : o <= q][2]

\* the rules from position r on, in table order; within a rule only its
\* first keyword is looked for
RECURSIVE classify_from_head(_, _)
classify_from_head(t, r) ==
    IF r > Len(KEYWORD_MAP) THEN <<"General", "Medium">>
    ELSE IF contains(KEYWORD_MAP[r][1][1], t)
    THEN KEYWORD_MAP[r][2]
    ELSE classify_from_head(t, r + 1)

\* the rules from position r on, in table order; within a rule any keyword
RECURSIVE classify_from(_, _)
classify_from(t, r) ==
    IF r > Len(KEYWORD_MAP) THEN <<"General", "Medium">>
    ELSE IF \E j \in 1..Len(KEYWORD_MAP[r][1]) : contains(KEYWORD_MAP[r][1][j], t)
    THEN KEYWORD_MAP[r][2]
    ELSE classify_from(t, r + 1)

classify_issue(text) ==
    CHOOSE result \in {classify_from(t, 1) : t \in {lower_text(text)}} : TRUE

\* hashlib.sha256(text).hexdigest(): equal texts, and only those, agree
email_hash(text) == [sha256 |-> text]

(* ------------------------------ database ------------------------------- *)
\* an INSERT that takes the highest id in use again, replacing its row
create_ticket_reusing(store, sender, issue, category, priority, status, assigned_to, message_id, clock) ==
    LET row(id) ==
            [id |-> id, sender |-> sender, issue |-> issue,
             category |-> category, priority |-> priority, status |-> status,
             assigned_to |-> assigned_to, message_id |-> message_id,
             created_at |-> isoformat(clock), updated_at |-> isoformat(clock)]
    IN  IF store = <<>> THEN <<row(1)>>
        ELSE [store EXCEPT ![Len(store)] = row(Len(store))]

\* INSERT: created_at and updated_at are the same clock reading
create_ticket(store, sender, issue, category, priority, status, assigned_to, message_id, clock) ==
    Append(store,
           [id |-> Len(store) + 1, sender |-> sender, issue |-> issue,
            category |-> category, priority |-> priority, status |-> status,
            assigned_to |-> assigned_to, message_id |-> message_id,
            created_at |-> isoformat(clock), updated_at |-> isoformat(clock)])

\* SELECT ... WHERE id = ?: the row, or None
get_ticket_by_id(store, ticket_id) ==
    IF ticket_id \in DOMAIN store THEN <<store[ticket_id]>> ELSE <<>>

update_ticket_assignment(store, ticket_id, assigned_to, clock) ==
    [i \in DOMAIN store |->
        IF i = ticket_id
        THEN [store[i] EXCEPT !.assigned_to = assigned_to, !.updated_at = isoformat(clock)]
        ELSE store[i]]

\* mutant: a Closed ticket is terminal, its status is not written again
update_ticket_status_terminal(store, ticket_id, status, clock) ==
    [i \in DOMAIN store |->
        IF i = ticket_id /\ store[i].status # "Closed"
        THEN [store[i] EXCEPT !.status = status, !.updated_at = isoformat(clock)]
        ELSE store[i]]

\* mutant: a status write starts the ticket's clock again
update_ticket_status_restart(store, ticket_id, status, clock) ==
    [i \in DOMAIN store |->
        IF i = ticket_id
        THEN [store[i] EXCEPT !.status = status, !.created_at = isoformat(clock),
                              !.updated_at = isoformat(clock)]
        ELSE store[i]]

update_ticket_status(store, ticket_id, status, clock) ==
    [i \in DOMAIN store |->
        IF i = ticket_id
        THEN [store[i] EXCEPT !.status = status, !.updated_at = isoformat(clock)]
        ELSE store[i]]

\* mutant: the priority UPDATE is lost
update_ticket_priority_lost(store, ticket_id, priority, clock) == store

\* mutant: the priority UPDATE leaves updated_at as it was
update_ticket_priority_stale(store, ticket_id, priority, clock) ==
    [i \in DOMAIN store |->
        IF i = ticket_id THEN [store[i] EXCEPT !.priority = priority] ELSE store[i]]

update_ticket_priority(store, ticket_id, priority, clock) ==
    [i \in DOMAIN store |->
        IF i = ticket_id
        THEN [store[i] EXCEPT !.priority = priority, !.updated_at = isoformat(clock)]
        ELSE store[i]]

\* SELECT * ... ORDER BY created_at DESC; rows with equal created_at keep
\* their rowid order
list_tickets(store) ==
    LET n == Len(store)
        before(j, i) ==
            \/ store[j].created_at.at > store[i].created_at.at
            \/ (store[j].created_at.at = store[i].created_at.at /\ j < i)
        rank(i) == Cardinality({j \in 1..n : before(j, i)})
    IN  [k \in 1..n |-> store[CHOOSE i \in 1..n : rank(i) = k - 1]]

(* -------------------------- resolution policy -------------------------- *)
\* str.lower() on the priority strings the model feeds in
lower(s) ==
    CASE s = "Low" -> "low"
      [] s = "LOW" -> "low"
      [] s = "Medium" -> "medium"
      [] s = "MEDIUM" -> "medium"
      [] s = "High" -> "high"
      [] s = "HIGH" -> "high"
      [] s = "Urgent" -> "urgent"
      [] OTHER -> s

\* Python's None: a JSON null in a request body, a NULL in the store
None == "None"

\* the policy without the lower-casing of its argument
resolve_status_unlowered(priority) ==
    LET p == IF priority = None THEN "" ELSE priority IN
    IF p = "low" THEN "Closed"
    ELSE IF p = "medium" THEN "Open"
    ELSE IF p = "high" THEN "Escalated"
    ELSE "Open"

\* mutant: the policy leaves a Medium ticket as it was inserted
resolve_status_untriaged(priority) ==
    LET p == lower(IF priority = None THEN "" ELSE priority) IN
    IF p = "low" THEN "Closed"
    ELSE IF p = "medium" THEN "New"
    ELSE IF p = "high" THEN "Escalated"
    ELSE "Open"

resolve_status(priority) ==
    LET p == lower(IF priority = None THEN "" ELSE priority) IN
    IF p = "low" THEN "Closed"
    ELSE IF p = "medium" THEN "Open"
    ELSE IF p = "high" THEN "Escalated"
    ELSE "Open"

(* --------------------------- assignment router ------------------------- *)
assign_ticket(ticket) ==
    Get(TEAM_ASSIGNMENTS, ticket.category,
        Get(TEAM_ASSIGNMENTS, "General", "helpdesk@example.com"))

\* NotificationService.send_email: True when the message went out, False when
\* SMTP is not configured or the session raised; it never raises itself
send_email == smtp = "up"

\* a call of one of the notifier's send_* methods and what send_email returned
Notice(kind, to, ticket) ==
    [kind |-> kind, to |-> to, id |-> ticket.id, delivered |-> send_email]

\* process_assignment sending the confirmation only
process_assignment_created_only(ticket) == <<Notice("created", ticket.sender, ticket)>>

\* the notifier calls of process_assignment; the assigned_to it computes is
\* written to the handler's copy of the row only, never to the store
process_assignment(ticket) ==
    LET assigned_to == assign_ticket(ticket) IN
    <<Notice("created", ticket.sender, ticket)>> \o
    (IF ticket.status = "Closed" THEN <<Notice("resolved", ticket.sender, ticket)>>
     ELSE IF ticket.status = "Escalated" THEN <<Notice("escalated", assigned_to, ticket)>>
     ELSE <<>>)

\* the open tickets per team: one counter per address of the team table,
\* and a ticket counts only when its assigned_to is one of those addresses
get_team_workload(store) ==
    LET teams == {TEAM_ASSIGNMENTS[c] : c \in DOMAIN TEAM_ASSIGNMENTS} IN
    [team \in teams |->
        Cardinality({i \in 1..Len(store) :
                        /\ store[i].status \notin {"Closed", "Resolved"}
                        /\ store[i].assigned_to = team})]

(* ----------------------------- SLA calculator --------------------------- *)
\* the due dates with the Medium windows for a priority outside the tables
calculate_sla_due_medium_default(priority, created_at, clock) ==
    LET created == IF created_at.valid THEN created_at.at ELSE clock
        response_hours == Get(SLA_RESPONSE_HOURS, priority, 4)
        resolution_hours == Get(SLA_RESOLUTION_HOURS, priority, 24)
    IN  [response_due |-> isoformat(created + timedelta_hours(response_hours)),
         resolution_due |-> isoformat(created + timedelta_hours(resolution_hours))]

\* clock is the reading taken when created_at does not parse
calculate_sla_due(priority, created_at, clock) ==
    LET created == IF created_at.valid THEN created_at.at ELSE clock
        response_hours == Get(SLA_RESPONSE_HOURS, priority, 24)
        resolution_hours == Get(SLA_RESOLUTION_HOURS, priority, 72)
    IN  [response_due |-> isoformat(created + timedelta_hours(response_hours)),
         resolution_due |-> isoformat(created + timedelta_hours(resolution_hours))]

\* mutant: only Closed counts as terminal
check_sla_status_closed_only(ticket, clock, later) ==
    LET sla == calculate_sla_due(ticket.priority, ticket.created_at, later)
        response_due == sla.response_due.at
        resolution_due == sla.resolution_due.at
        is_closed == ticket.status = "Closed"
        response_ok == is_closed \/ clock < response_due
        resolution_ok == is_closed \/ clock < resolution_due
        time_to_breach == IF ~is_closed THEN resolution_due - clock ELSE timedelta_days(999)
    IN  [response_ok |-> response_ok,
         resolution_ok |-> resolution_ok,
         response_due |-> sla.response_due,
         resolution_due |-> sla.resolution_due,
         time_to_breach |-> time_to_breach,
         breached |-> ~resolution_ok]

\* mutant: the deadline instant itself still counts as in time
check_sla_status_inclusive(ticket, clock, later) ==
    LET sla == calculate_sla_due(ticket.priority, ticket.created_at, later)
        response_due == sla.response_due.at
        resolution_due == sla.resolution_due.at
        is_closed == ticket.status \in {"Closed", "Resolved"}
        response_ok == is_closed \/ clock <= response_due
        resolution_ok == is_closed \/ clock <= resolution_due
        time_to_breach == IF ~is_closed THEN resolution_due - clock ELSE timedelta_days(999)
    IN  [response_ok |-> response_ok,
         resolution_ok |-> resolution_ok,
         response_due |-> sla.response_due,
         resolution_due |-> sla.resolution_due,
         time_to_breach |-> time_to_breach,
         breached |-> ~resolution_ok]

\* mutant: the deadlines run from the last write to the ticket
check_sla_status_touched(ticket, clock, later) ==
    LET sla == calculate_sla_due(ticket.priority, ticket.updated_at, later)
        response_due == sla.response_due.at
        resolution_due == sla.resolution_due.at
        is_closed == ticket.status \in {"Closed", "Resolved"}
        response_ok == is_closed \/ clock < response_due
        resolution_ok == is_closed \/ clock < resolution_due
        time_to_breach == IF ~is_closed THEN resolution_due - clock ELSE timedelta_days(999)
    IN  [response_ok |-> response_ok,
         resolution_ok |-> resolution_ok,
         response_due |-> sla.response_due,
         resolution_due |-> sla.resolution_due,
         time_to_breach |-> time_to_breach,
         breached |-> ~resolution_ok]

\* clock is the reading check_sla_status takes first, later the one that
\* calculate_sla_due takes if it has to
check_sla_status(ticket, clock, later) ==
    LET sla == calculate_sla_due(ticket.priority, ticket.created_at, later)
        response_due == sla.response_due.at
        resolution_due == sla.resolution_due.at
        is_closed == ticket.status \in {"Closed", "Resolved"}
        response_ok == is_closed \/ clock < response_due
        resolution_ok == is_closed \/ clock < resolution_due
        time_to_breach == IF ~is_closed THEN resolution_due - clock ELSE timedelta_days(999)
    IN  [response_ok |-> response_ok,
         resolution_ok |-> resolution_ok,
         response_due |-> sla.response_due,
         resolution_due |-> sla.resolution_due,
         time_to_breach |-> time_to_breach,
         breached |-> ~resolution_ok]

\* the reading calculate_sla_due takes when created_at does not parse is the
\* clock at most d later; otherwise the clock is read once
clock_after(ticket, d) == IF ticket.created_at.valid THEN now ELSE now + d

(* --------------------------- request handlers -------------------------- *)
\* what a handler answered: the operation, the ticket id it was about, the
\* error it reported ("" for none) and the row it had fetched (<<>> for none)
Reply(op, id, error, fetched) == [op |-> op, id |-> id, error |-> error, fetched |-> fetched]

\* POST /api/ticket/create; d is the time between the INSERT and the UPDATE
api_create_ticket(data, d) ==
    LET sender == Get(data, "sender", manual_sender)
        issue == Get(data, "issue", "")
        category == Get(data, "category", "General")
        priority == Get(data, "priority", "Medium")
    IN  IF issue = ""
        THEN /\ response' = Reply("create", 0, "issue field required", <<>>)
             /\ sent' = <<>>
             /\ UNCHANGED <<tickets, now, files, sla_state, smtp, inflight, scheduler>>
        ELSE LET assigned_to == Get(TEAM_ASSIGNMENTS, category, "")
                 inserted == create_ticket(tickets, sender, issue, category, priority,
                                           "New", assigned_to, "", now)
                 ticket_id == Len(inserted)
                 new_status == resolve_status(priority)
                 stored == update_ticket_status(inserted, ticket_id, new_status, now + d)
             IN  /\ tickets' = stored
                 /\ now' = now + d
                 /\ sent' = process_assignment(stored[ticket_id])
                 /\ response' = Reply("create", ticket_id, "", <<>>)
                 /\ UNCHANGED <<files, sla_state, smtp, inflight, scheduler>>

api_resolve_ticket(ticket_id) ==
    LET ticket == get_ticket_by_id(tickets, ticket_id) IN
    IF ticket = <<>>
    THEN /\ response' = Reply("resolve", ticket_id, "Ticket not found", ticket)
         /\ sent' = <<>>
         /\ UNCHANGED <<tickets, now, files, sla_state, smtp, inflight, scheduler>>
    ELSE /\ tickets' = update_ticket_status(tickets, ticket_id, "Closed", now)
         /\ sent' = <<Notice("resolved", ticket[1].sender, ticket[1])>>
         /\ response' = Reply("resolve", ticket_id, "", ticket)
         /\ UNCHANGED <<now, files, sla_state, smtp, inflight, scheduler>>

\* mutant: an escalation also hands the ticket to the team of its category
api_escalate_ticket_rerouting(ticket_id, d) ==
    LET ticket == get_ticket_by_id(tickets, ticket_id) IN
    IF ticket = <<>>
    THEN /\ response' = Reply("escalate", ticket_id, "Ticket not found", ticket)
         /\ sent' = <<>>
         /\ UNCHANGED <<tickets, now, files, sla_state, smtp, inflight, scheduler>>
    ELSE LET team_email == Get(TEAM_ASSIGNMENTS, ticket[1].category, "helpdesk@example.com")
         IN  /\ tickets' = update_ticket_assignment(
                               update_ticket_priority(
                                   update_ticket_status(tickets, ticket_id, "Escalated", now),
                                   ticket_id, "High", now + d),
                               ticket_id, team_email, now + d)
             /\ now' = now + d
             /\ sent' = <<Notice("escalated", team_email, ticket[1])>>
             /\ response' = Reply("escalate", ticket_id, "", ticket)
             /\ UNCHANGED <<files, sla_state, smtp, inflight, scheduler>>

\* d is the time between the status UPDATE and the priority UPDATE
api_escalate_ticket(ticket_id, d) ==
    LET ticket == get_ticket_by_id(tickets, ticket_id) IN
    IF ticket = <<>>
    THEN /\ response' = Reply("escalate", ticket_id, "Ticket not found", ticket)
         /\ sent' = <<>>
         /\ UNCHANGED <<tickets, now, files, sla_state, smtp, inflight, scheduler>>
    ELSE LET team_email == Get(TEAM_ASSIGNMENTS, ticket[1].category, "helpdesk@example.com")
         IN  /\ tickets' = update_ticket_priority(
                               update_ticket_status(tickets, ticket_id, "Escalated", now),
                               ticket_id, "High", now + d)
             /\ now' = now + d
             /\ sent' = <<Notice("escalated", team_email, ticket[1])>>
             /\ response' = Reply("escalate", ticket_id, "", ticket)
             /\ UNCHANGED <<files, sla_state, smtp, inflight, scheduler>>

\* mutant: reopen without the NotFound check
api_reopen_ticket_unchecked(ticket_id) ==
    /\ tickets' = update_ticket_status(tickets, ticket_id, "Open", now)
    /\ sent' = <<>>
    /\ response' = Reply("reopen", ticket_id, "", get_ticket_by_id(tickets, ticket_id))
    /\ UNCHANGED <<now, files, sla_state, smtp, inflight, scheduler>>

api_reopen_ticket(ticket_id) ==
    LET ticket == get_ticket_by_id(tickets, ticket_id) IN
    IF ticket = <<>>
    THEN /\ response' = Reply("reopen", ticket_id, "Ticket not found", ticket)
         /\ sent' = <<>>
         /\ UNCHANGED <<tickets, now, files, sla_state, smtp, inflight, scheduler>>
    ELSE /\ tickets' = update_ticket_status(tickets, ticket_id, "Open", now)
         /\ sent' = <<>>
         /\ response' = Reply("reopen", ticket_id, "", ticket)
         /\ UNCHANGED <<now, files, sla_state, smtp, inflight, scheduler>>

\* mutant: assign without the check for an empty assigned_to
api_assign_ticket_unvalidated(ticket_id, data) ==
    LET ticket == get_ticket_by_id(tickets, ticket_id)
        assigned_to == Get(data, "assigned_to", "")
    IN  IF ticket = <<>>
        THEN /\ response' = Reply("assign", ticket_id, "Ticket not found", ticket)
             /\ sent' = <<>>
             /\ UNCHANGED <<tickets, now, files, sla_state, smtp, inflight, scheduler>>
        ELSE /\ tickets' = update_ticket_assignment(tickets, ticket_id, assigned_to, now)
             /\ sent' = <<>>
             /\ response' = Reply("assign", ticket_id, "", ticket)
             /\ UNCHANGED <<now, files, sla_state, smtp, inflight, scheduler>>

api_assign_ticket(ticket_id, data) ==
    LET ticket == get_ticket_by_id(tickets, ticket_id)
        assigned_to == Get(data, "assigned_to", "")
    IN  IF ticket = <<>>
        THEN /\ response' = Reply("assign", ticket_id, "Ticket not found", ticket)
             /\ sent' = <<>>
             /\ UNCHANGED <<tickets, now, files, sla_state, smtp, inflight, scheduler>>
        ELSE IF assigned_to # ""
        THEN /\ tickets' = update_ticket_assignment(tickets, ticket_id, assigned_to, now)
             /\ sent' = <<>>
             /\ response' = Reply("assign", ticket_id, "", ticket)
             /\ UNCHANGED <<now, files, sla_state, smtp, inflight, scheduler>>
        ELSE /\ response' = Reply("assign", ticket_id, "assigned_to required", ticket)
             /\ sent' = <<>>
             /\ UNCHANGED <<tickets, now, files, sla_state, smtp, inflight, scheduler>>

\* POST /api/emails/add: one more line in emails.txt
api_add_email(data) ==
    LET sender == Get(data, "sender", test_sender)
        subject == Get(data, "subject", <<>>)
        body == Get(data, "body", <<>>)
    IN  IF subject = <<>>
        THEN /\ response' = Reply("add_email", 0, "subject required", <<>>)
             /\ sent' = <<>>
             /\ UNCHANGED <<tickets, now, files, sla_state, smtp, inflight, scheduler>>
        ELSE /\ emails_file' = Append(emails_file, sender \o <<"|">> \o subject \o <<"|">> \o body)
             /\ response' = Reply("add_email", 0, "", <<>>)
             /\ sent' = <<>>
             /\ UNCHANGED <<tickets, now, processed_file, sla_state, smtp, inflight, scheduler>>

\* one pass of the file loop of process_emails: raw is the stripped line, run
\* carries the store, the notifier calls, the hashes appended and the clock.
\* The INSERT reads run.clock, every later store call the clock `later`.
intake_line(raw, run, later) ==
    LET email == parse_email_line(raw)
        summary == lower_text(email.subject \o <<"\n">> \o email.body)
        Ticket(classified) ==
            LET category == classified[1]
                priority == classified[2]
                assigned_to == Get(TEAM_ASSIGNMENTS, category, "")
                inserted == create_ticket(run.store, email.sender, email.subject,
                                          category, priority, "New", assigned_to,
                                          "", run.clock)
                ticket_id == Len(inserted)
                new_status == resolve_status(priority)
            IN  update_ticket_status(inserted, ticket_id, new_status, later)
        Ran(stored) ==
            [store |-> stored,
             sent |-> run.sent \o process_assignment(stored[Len(stored)]),
             appended |-> Append(run.appended, email_hash(raw)),
             clock |-> later]
    IN  CHOOSE r \in {Ran(stored) : stored \in {Ticket(c) : c \in {classify_issue(summary)}}} : TRUE

\* the file loop over the lines left; processed_hashes is the set read before
\* the loop and is not extended while the loop runs
RECURSIVE intake_loop(_, _, _, _)
intake_loop(lines, processed_hashes, run, later) ==
    IF lines = <<>> THEN run
    ELSE CHOOSE r \in
            {IF raw = <<>> \/ email_hash(raw) \in processed_hashes
             THEN intake_loop(Tail(lines), processed_hashes, run, later)
             ELSE CHOOSE rr \in {intake_loop(Tail(lines), processed_hashes, n, later) :
                                 n \in {intake_line(raw, run, later)}} : TRUE
               : raw \in {strip(Head(lines))}} : TRUE

\* GET /process in demo mode (DEMO_MODE defaults to true): the file branch.
\* An emails.txt that does not exist behaves as an empty one.  The first
\* INSERT reads the clock at the start of the run, later store calls d later.
process_emails(d) ==
    LET processed_hashes == {processed_file[i] : i \in 1..Len(processed_file)} IN
    \E run \in {intake_loop(emails_file, processed_hashes,
                            [store |-> tickets, sent |-> <<>>, appended |-> <<>>, clock |-> now],
                            now + d)} :
        /\ tickets' = run.store
        /\ processed_file' = processed_file \o run.appended
        /\ sent' = run.sent
        /\ now' = run.clock
        /\ response' = Reply("process", Len(run.appended), "", <<>>)
        /\ UNCHANGED <<emails_file, sla_state, smtp, inflight, scheduler>>

\* GET /api/ticket/<id>: the row with its SLA snapshot
api_ticket_detail(ticket_id, d) ==
    LET ticket == get_ticket_by_id(tickets, ticket_id) IN
    IF ticket = <<>>
    THEN /\ response' = Reply("detail", ticket_id, "Ticket not found", ticket)
         /\ sent' = <<>>
         /\ UNCHANGED <<tickets, now, files, sla_state, smtp, inflight, scheduler>>
    ELSE /\ snapshot' = <<[ticket |-> ticket[1], clock |-> now,
                           sla |-> check_sla_status(ticket[1], now, clock_after(ticket[1], d))]>>
         /\ now' = clock_after(ticket[1], d)
         /\ response' = Reply("detail", ticket_id, "", ticket)
         /\ sent' = <<>>
         /\ UNCHANGED <<tickets, files, sweep, smtp, inflight, scheduler>>

\* GET /tickets: every row with its SLA snapshot.  Each check_sla_status call
\* reads the clock: the first k rows at now, the rows after them d later
tickets_page(k, d) ==
    LET rows == list_tickets(tickets)
        reading(i) == IF i <= k THEN now ELSE now + d
    IN  /\ snapshot' = [i \in 1..Len(rows) |->
                           [ticket |-> rows[i], clock |-> reading(i),
                            sla |-> check_sla_status(rows[i], reading(i), reading(i))]]
        /\ now' = now + d
        /\ response' = Reply("tickets", 0, "", <<>>)
        /\ sent' = <<>>
        /\ UNCHANGED <<tickets, files, sweep, smtp, inflight, scheduler>>

(* ------------- request handlers, one store call at a time -------------- *)
\* Flask serves each request on its own thread and every database call
\* opens, commits and closes its own connection: between two store calls of
\* one handler, any store call of another request may run.  A request in
\* hand is kept in inflight; line is the store call it makes next.
Call(handler, line, ticket_id, ticket, priority) ==
    [handler |-> handler, line |-> line, ticket_id |-> ticket_id, ticket |-> ticket,
     priority |-> priority]

\* the requests in hand once request c has returned
returned(c) == SubSeq(inflight, 1, c - 1) \o SubSeq(inflight, c + 1, Len(inflight))

\* api_create_ticket up to the INSERT with status New
api_create_ticket_insert(data) ==
    LET sender == Get(data, "sender", manual_sender)
        issue == Get(data, "issue", "")
        category == Get(data, "category", "General")
        priority == Get(data, "priority", "Medium")
    IN  IF issue = ""
        THEN /\ response' = Reply("create", 0, "issue field required", <<>>)
             /\ sent' = <<>>
             /\ UNCHANGED <<tickets, now, files, sla_state, smtp, inflight, scheduler>>
        ELSE LET assigned_to == Get(TEAM_ASSIGNMENTS, category, "")
                 inserted == create_ticket(tickets, sender, issue, category, priority,
                                           "New", assigned_to, "", now)
             IN  /\ tickets' = inserted
                 /\ inflight' = Append(inflight,
                                       Call("create", "status", Len(inserted), <<>>, priority))
                 /\ UNCHANGED <<now, response, sent, files, sla_state, smtp, scheduler>>

\* api_create_ticket: resolve_status and the status UPDATE
api_create_ticket_status(c) ==
    /\ inflight[c].handler = "create" /\ inflight[c].line = "status"
    /\ tickets' = update_ticket_status(tickets, inflight[c].ticket_id,
                                       resolve_status(inflight[c].priority), now)
    /\ inflight' = [inflight EXCEPT ![c].line = "assign"]
    /\ UNCHANGED <<now, response, sent, files, sla_state, smtp, scheduler>>

\* api_create_ticket: the row is read back, process_assignment notifies, the
\* handler returns
api_create_ticket_assign(c) ==
    /\ inflight[c].handler = "create" /\ inflight[c].line = "assign"
    /\ sent' = process_assignment(get_ticket_by_id(tickets, inflight[c].ticket_id)[1])
    /\ response' = Reply("create", inflight[c].ticket_id, "", <<>>)
    /\ inflight' = returned(c)
    /\ UNCHANGED <<tickets, now, files, sla_state, smtp, scheduler>>

\* api_escalate_ticket: the row is fetched
api_escalate_ticket_get(ticket_id) ==
    LET ticket == get_ticket_by_id(tickets, ticket_id) IN
    IF ticket = <<>>
    THEN /\ response' = Reply("escalate", ticket_id, "Ticket not found", ticket)
         /\ sent' = <<>>
         /\ UNCHANGED <<tickets, now, files, sla_state, smtp, inflight, scheduler>>
    ELSE /\ inflight' = Append(inflight, Call("escalate", "status", ticket_id, ticket, "High"))
         /\ UNCHANGED <<tickets, now, response, sent, files, sla_state, smtp, scheduler>>

\* api_escalate_ticket: the status UPDATE
api_escalate_ticket_status(c) ==
    /\ inflight[c].handler = "escalate" /\ inflight[c].line = "status"
    /\ tickets' = update_ticket_status(tickets, inflight[c].ticket_id, "Escalated", now)
    /\ inflight' = [inflight EXCEPT ![c].line = "priority"]
    /\ UNCHANGED <<now, response, sent, files, sla_state, smtp, scheduler>>

\* api_escalate_ticket: the priority UPDATE, the notification, the return
api_escalate_ticket_priority(c) ==
    LET ticket == inflight[c].ticket
        team_email == Get(TEAM_ASSIGNMENTS, ticket[1].category, "helpdesk@example.com")
    IN  /\ inflight[c].handler = "escalate" /\ inflight[c].line = "priority"
        /\ tickets' = update_ticket_priority(tickets, inflight[c].ticket_id,
                                             inflight[c].priority, now)
        /\ sent' = <<Notice("escalated", team_email, ticket[1])>>
        /\ response' = Reply("escalate", inflight[c].ticket_id, "", ticket)
        /\ inflight' = returned(c)
        /\ UNCHANGED <<now, files, sla_state, smtp, scheduler>>

(* ------------------------------ SLA sweep ------------------------------ *)
\* run_sla_check, one step per store query, per ticket examined and per
\* warning sent; every check_sla_status call reads the clock when it runs.
\* started is the clock when the check began: the code does not read it, it
\* is kept to state what a check returned against when it ran
Idle == [pc |-> "idle", rows |-> <<>>, i |-> 0, at_risk |-> <<>>, breached |-> <<>>,
         result |-> <<>>, started |-> 0]

\* run_sla_check begins: get_tickets_near_breach queries the store
run_sla_check ==
    /\ sweep.pc \in {"idle", "done"}
    /\ sweep' = [Idle EXCEPT !.pc = "near", !.rows = list_tickets(tickets), !.i = 1,
                             !.started = now]
    /\ sent' = <<>>
    /\ UNCHANGED <<tickets, now, response, files, snapshot, smtp, inflight, scheduler>>

\* mutant: the near-breach loop marks each ticket it lists as Escalated
get_tickets_near_breach_marking ==
    /\ sweep.pc = "near"
    /\ IF sweep.i <= Len(sweep.rows)
       THEN LET ticket == sweep.rows[sweep.i]
                sla_status == check_sla_status(ticket, now, now)
                listed == /\ ticket.status \notin {"Closed", "Resolved"}
                          /\ sla_status.time_to_breach < timedelta_minutes(30)
            IN  /\ sweep' = [sweep EXCEPT
                       !.i = @ + 1,
                       !.at_risk = IF listed
                                   THEN Append(@, [ticket |-> ticket, sla_status |-> sla_status])
                                   ELSE @]
                /\ tickets' = IF listed
                              THEN update_ticket_status(tickets, ticket.id, "Escalated", now)
                              ELSE tickets
       ELSE /\ sweep' = [sweep EXCEPT !.pc = "warn", !.i = 1]
            /\ UNCHANGED tickets
    /\ UNCHANGED <<now, response, sent, files, snapshot, smtp, inflight, scheduler>>

\* the loop of get_tickets_near_breach(threshold_minutes=30) at row sweep.i
get_tickets_near_breach ==
    /\ sweep.pc = "near"
    /\ IF sweep.i <= Len(sweep.rows)
       THEN LET ticket == sweep.rows[sweep.i]
                sla_status == check_sla_status(ticket, now, now)
            IN  sweep' = [sweep EXCEPT
                    !.i = @ + 1,
                    !.at_risk =
                        IF ticket.status \in {"Closed", "Resolved"} THEN @
                        ELSE IF sla_status.time_to_breach < timedelta_minutes(30)
                        THEN Append(@, [ticket |-> ticket, sla_status |-> sla_status])
                        ELSE @]
       ELSE sweep' = [sweep EXCEPT !.pc = "warn", !.i = 1]
    /\ UNCHANGED <<tickets, now, response, sent, files, snapshot, smtp, inflight, scheduler>>

\* the warning loop giving the check up at the first warning send_email does
\* not deliver
send_sla_breach_warning_abort ==
    /\ sweep.pc = "warn"
    /\ IF sweep.i <= Len(sweep.at_risk)
       THEN LET ticket == sweep.at_risk[sweep.i].ticket
                team_email == Get(TEAM_ASSIGNMENTS, ticket.category, "helpdesk@example.com")
            IN  /\ sent' = Append(sent, Notice("sla_warning", team_email, ticket))
                /\ sweep' = IF send_email THEN [sweep EXCEPT !.i = @ + 1]
                             ELSE [sweep EXCEPT !.pc = "idle"]
       ELSE /\ sweep' = [sweep EXCEPT !.pc = "breach", !.rows = list_tickets(tickets), !.i = 1]
            /\ UNCHANGED sent
    /\ UNCHANGED <<tickets, now, response, files, snapshot, smtp, inflight, scheduler>>

\* the warning loop of run_sla_check at at_risk[sweep.i]; after the last
\* warning get_breached_tickets queries the store again
send_sla_breach_warning ==
    /\ sweep.pc = "warn"
    /\ IF sweep.i <= Len(sweep.at_risk)
       THEN LET ticket == sweep.at_risk[sweep.i].ticket
                team_email == Get(TEAM_ASSIGNMENTS, ticket.category, "helpdesk@example.com")
            IN  /\ sent' = Append(sent, Notice("sla_warning", team_email, ticket))
                /\ sweep' = [sweep EXCEPT !.i = @ + 1]
       ELSE /\ sweep' = [sweep EXCEPT !.pc = "breach", !.rows = list_tickets(tickets), !.i = 1]
            /\ UNCHANGED sent
    /\ UNCHANGED <<tickets, now, response, files, snapshot, smtp, inflight, scheduler>>

\* the loop of get_breached_tickets at row sweep.i; after the last row
\* run_sla_check returns its counts
get_breached_tickets ==
    /\ sweep.pc = "breach"
    /\ IF sweep.i <= Len(sweep.rows)
       THEN LET ticket == sweep.rows[sweep.i]
                sla_status == check_sla_status(ticket, now, now)
            IN  sweep' = [sweep EXCEPT
                    !.i = @ + 1,
                    !.breached =
                        IF ticket.status \in {"Closed", "Resolved"} THEN @
                        ELSE IF sla_status.breached
                        THEN Append(@, [ticket |-> ticket, sla_status |-> sla_status])
                        ELSE @]
       ELSE sweep' = [sweep EXCEPT
                !.pc = "done",
                !.result = <<[at_risk |-> Len(sweep.at_risk),
                              breached |-> Len(sweep.breached)]>>]
    /\ UNCHANGED <<tickets, now, response, sent, files, snapshot, smtp, inflight, scheduler>>

\* the wall clock advances
Tick == /\ now' = now + 1
        /\ UNCHANGED <<tickets, response, sent, files, sla_state, smtp, inflight, scheduler>>

\* the mail server goes away or comes back
smtp_changes ==
    /\ smtp' = IF smtp = "up" THEN "down" ELSE "up"
    /\ UNCHANGED <<tickets, now, response, sent, files, sla_state, inflight, scheduler>>

(* ------------------------------ scheduler ------------------------------ *)
\* AutomationScheduler(): a BackgroundScheduler with no job, not started.
\* auto is config.AUTO_PROCESS_ENABLED, read from the environment once
AutomationScheduler(auto) ==
    [auto |-> auto, started |-> FALSE, running |-> FALSE, jobs |-> <<>>, atexit |-> 0]

\* scheduler.add_job(..., id=id, replace_existing=True): a job registered
\* under the same id gives way to the new one
add_job(jobs, id) == SelectSeq(jobs, LAMBDA j : j # id) \o <<id>>

\* mutant: start without the test of _started
start_unguarded(sla_check_func) ==
    /\ IF scheduler.auto
       THEN LET email == add_job(scheduler.jobs, "email_processor")
                jobs == IF sla_check_func THEN add_job(email, "sla_checker") ELSE email
            IN  scheduler' = [scheduler EXCEPT !.jobs = jobs, !.running = TRUE,
                                               !.started = TRUE, !.atexit = @ + 1]
       ELSE UNCHANGED scheduler
    /\ UNCHANGED <<tickets, now, response, sent, files, sla_state, smtp, inflight>>

\* AutomationScheduler.start(process_emails, sla_check_func); sla_check_func
\* is whether one was passed
start(sla_check_func) ==
    /\ IF scheduler.started THEN UNCHANGED scheduler
       ELSE IF scheduler.auto
       THEN LET email == add_job(scheduler.jobs, "email_processor")
                jobs == IF sla_check_func THEN add_job(email, "sla_checker") ELSE email
            IN  scheduler' = [scheduler EXCEPT !.jobs = jobs, !.running = TRUE,
                                               !.started = TRUE, !.atexit = @ + 1]
       ELSE UNCHANGED scheduler
    /\ UNCHANGED <<tickets, now, response, sent, files, sla_state, smtp, inflight>>

\* AutomationScheduler.shutdown(); what BackgroundScheduler.shutdown() does
\* with the jobs is the library's: they are kept or they are dropped
shutdown ==
    /\ IF scheduler.started
       THEN \E kept \in BOOLEAN :
               scheduler' = [scheduler EXCEPT !.running = FALSE, !.started = FALSE,
                                              !.jobs = IF kept THEN @ ELSE <<>>]
       ELSE UNCHANGED scheduler
    /\ UNCHANGED <<tickets, now, response, sent, files, sla_state, smtp, inflight>>

\* the running scheduler finds the job with this id due
fires(id) == scheduler.running /\ \E k \in DOMAIN scheduler.jobs : scheduler.jobs[k] = id

\* the email_processor job: process_emails, every POLL_INTERVAL_SECONDS
email_processor == fires("email_processor") /\ process_emails(0)

\* the sla_checker job: run_sla_check, every 5 minutes
sla_checker == fires("sla_checker") /\ run_sla_check

(* ----------------------------- environment ----------------------------- *)
jam == <<"j", "a", "m">>

\* categories a create request names: one of the team table, one outside it
CategoryInputs == {"Infrastructure", "Printing"}

\* priorities a create request names: the enumeration, and a value outside it
PriorityInputs == {"Low", "Medium", "High", "Urgent"}

\* the JSON bodies sent to /api/ticket/create
CreateRequests ==
    {("issue" :> jam) @@ ("category" :> c) @@ ("priority" :> p) :
        c \in CategoryInputs, p \in PriorityInputs}
    \cup {("issue" :> jam), ("issue" :> <<>>), ("category" :> "Infrastructure")}

\* the JSON bodies sent to /api/ticket/<id>/assign
AssignRequests ==
    {("assigned_to" :> "alice@example.com"), ("assigned_to" :> ""), <<>>}

\* the JSON bodies sent to /api/emails/add
EmailRequests ==
    {("sender" :> <<"a">>) @@ ("subject" :> <<"V", "P", "N">>),
     ("subject" :> <<"r", "e", "s", "e", "t">>) @@ ("body" :> <<"p", "c">>),
     ("subject" :> <<"h", "i">>) @@ ("body" :> <<"D", "o", "w", "n">>),
     ("sender" :> <<"b">>) @@ ("subject" :> <<"h", "i">>),
     ("sender" :> <<"b">>)}

\* ticket ids a request names: the stored ones and one that is not stored
TicketIds == 1..(MaxTickets + 1)

Init ==
    /\ tickets = <<>>
    /\ now = 0
    /\ response = Reply("none", 0, "", <<>>)
    /\ sent = <<>>
    /\ emails_file = <<>>
    /\ processed_file = <<>>
    /\ snapshot = <<>>
    /\ sweep = Idle
    /\ smtp = "up"
    /\ inflight = <<>>
    /\ scheduler = AutomationScheduler(FALSE)

\* ticket creation through the API and through the email intake, at one instant
Next ==
    \/ \E data \in CreateRequests :
          /\ Len(tickets) < MaxTickets
          /\ api_create_ticket(data, 0)
    \/ \E data \in EmailRequests :
          /\ Len(emails_file) < MaxTickets
          /\ api_add_email(data)
    \/ /\ process_emails(0)
       /\ Len(tickets') <= MaxTickets

Spec == Init /\ [][Next]_vars

\* the JSON bodies the lifecycle specification creates tickets with: one per
\* initial status the policy can give
LifecycleRequests ==
    {("issue" :> jam) @@ ("category" :> "Infrastructure") @@ ("priority" :> p) :
        p \in {"Low", "Medium", "High"}}

\* creation followed by the manual transitions, at one instant
NextLifecycle ==
    \/ \E data \in LifecycleRequests :
          /\ Len(tickets) < MaxTickets
          /\ api_create_ticket(data, 0)
    \/ \E ticket_id \in TicketIds : api_resolve_ticket(ticket_id)
    \/ \E ticket_id \in TicketIds : api_escalate_ticket(ticket_id, 0)
    \/ \E ticket_id \in TicketIds : api_reopen_ticket(ticket_id)
    \/ \E ticket_id \in TicketIds, data \in AssignRequests :
          api_assign_ticket(ticket_id, data)

SpecLifecycle == Init /\ [][NextLifecycle]_vars

\* creation followed by the manual transitions, while the clock runs
NextClock ==
    \/ \E data \in LifecycleRequests, d \in Elapsed :
          /\ Len(tickets) < MaxClockTickets
          /\ now + d <= MaxTime
          /\ api_create_ticket(data, d)
    \/ \E ticket_id \in 1..(MaxClockTickets + 1) : api_resolve_ticket(ticket_id)
    \/ \E ticket_id \in 1..(MaxClockTickets + 1), d \in Elapsed :
          /\ now + d <= MaxTime
          /\ api_escalate_ticket(ticket_id, d)
    \/ \E ticket_id \in 1..(MaxClockTickets + 1) : api_reopen_ticket(ticket_id)
    \/ \E ticket_id \in 1..(MaxClockTickets + 1), data \in AssignRequests :
          api_assign_ticket(ticket_id, data)
    \/ (now < MaxTime /\ Tick)

SpecClock == Init /\ [][NextClock]_vars

(* ------------------------- SLA specifications -------------------------- *)
\* last clock reading when the SLA snapshot is computed for one ticket
MaxSlaNow == 20
\* last clock reading of the sweep specification
MaxSweepNow == 18
\* latest created_at of the rows the SLA specifications start from
MaxCreated == 1

Row(id, category, priority, status, created_at) ==
    [id |-> id, sender |-> manual_sender, issue |-> jam, category |-> category,
     priority |-> priority, status |-> status,
     assigned_to |-> Get(TEAM_ASSIGNMENTS, category, ""), message_id |-> "",
     created_at |-> created_at, updated_at |-> created_at]

\* the rows check_sla_status is applied to: every priority class, every
\* status, created at a parsable instant or with a created_at that does not parse
SlaRows ==
    {Row(1, "Infrastructure", p, st, c) :
        p \in {"High", "Medium", "Low", "Urgent"},
        st \in {"New", "Open", "Closed", "Escalated", "Resolved"},
        c \in {isoformat(t) : t \in 0..MaxCreated} \cup {Unparsable}}

InitSla ==
    /\ tickets \in {<<r>> : r \in SlaRows}
    /\ now \in MaxCreated..MaxSlaNow
    /\ response = Reply("none", 0, "", <<>>)
    /\ sent = <<>>
    /\ emails_file = <<>>
    /\ processed_file = <<>>
    /\ snapshot = <<>>
    /\ sweep = Idle
    /\ smtp = "up"
    /\ inflight = <<>>
    /\ scheduler = AutomationScheduler(FALSE)

\* the SLA snapshot of a stored ticket, asked for as the clock runs
NextSla ==
    \/ \E ticket_id \in 1..2, d \in Elapsed :
          /\ now + d <= MaxSlaNow
          /\ api_ticket_detail(ticket_id, d)
    \/ (now < MaxSlaNow /\ Tick)

SpecSla == InitSla /\ [][NextSla]_vars

\* the stores the sweep starts from: up to MaxTickets rows, High or Medium,
\* in each status a handler can leave, created at 0..MaxCreated
SweepStores ==
    LET Shapes == {"High", "Medium"} \X {"Open", "Closed", "Escalated"} \X (0..MaxCreated)
    IN  UNION {
          {[i \in 1..n |-> Row(i, "Infrastructure", f[i][1], f[i][2], isoformat(f[i][3]))] :
              f \in [1..n -> Shapes]} : n \in 0..MaxTickets}

InitSweep ==
    /\ tickets \in SweepStores
    /\ now \in MaxCreated..MaxSweepNow
    /\ response = Reply("none", 0, "", <<>>)
    /\ sent = <<>>
    /\ emails_file = <<>>
    /\ processed_file = <<>>
    /\ snapshot = <<>>
    /\ sweep = Idle
    /\ smtp = "up"
    /\ inflight = <<>>
    /\ scheduler = AutomationScheduler(FALSE)

\* SLA checks over a fixed store, while the clock runs
NextSweep ==
    \/ run_sla_check
    \/ get_tickets_near_breach
    \/ send_sla_breach_warning
    \/ get_breached_tickets
    \/ (now < MaxSweepNow /\ Tick)

SpecSweep == InitSweep /\ [][NextSweep]_vars

(* ------------------------ policy specification ------------------------- *)
\* priorities a create request carries to the resolution policy: the three
\* classes as the tables spell them, other letter cases, a value outside
\* the classes, the empty string and null
PolicyInputs ==
    {"High", "Medium", "Low", "HIGH", "MEDIUM", "LOW", "high", "low", "Urgent", "", None}

\* the JSON bodies of the policy specification; the last has no priority
PolicyRequests ==
    {("issue" :> jam) @@ ("category" :> "Infrastructure") @@ ("priority" :> p) :
        p \in PolicyInputs}
    \cup {("issue" :> jam) @@ ("category" :> "Infrastructure")}

\* creation alone, at one instant: every stored status is an initial status
NextPolicy ==
    \E data \in PolicyRequests :
        /\ Len(tickets) < MaxTickets
        /\ api_create_ticket(data, 0)

SpecPolicy == Init /\ [][NextPolicy]_vars

(* ---------------------- classifier specification ----------------------- *)
\* lines of data/emails.txt, sender|subject|body: no keyword (twice, from two
\* senders), a keyword in capitals, keywords of two rules in either order, a
\* keyword inside a longer word, one keyword of each rule, a line with no body
ClassifyLines ==
    {<<"a", "|", "h", "i", "|", "o", "k">>,
     <<"b", "|", "h", "i", "|", "o", "k">>,
     <<"a", "|", "V", "P", "N", "|">>,
     <<"a", "|", "o", "u", "t", "a", "g", "e", "|", "p", "a", "s", "s", "w", "o", "r", "d">>,
     <<"b", "|", "p", "a", "s", "s", "w", "o", "r", "d", "|", "o", "u", "t", "a", "g", "e">>,
     <<"a", "|", "d", "o", "w", "n", "l", "o", "a", "d", "|">>,
     <<"a", "|", "u", "p", "g", "r", "a", "d", "e", "|", "e", "m", "a", "i", "l">>,
     <<"a", "|", "s", "e", "n", "d", "|", "v", "p", "n">>,
     <<"a", "|", "u", "n", "l", "o", "c", "k", "|">>,
     <<"a", "|", "i", "n", "s", "t", "a", "l", "l", "|">>,
     <<"a", "|", "h", "i">>,
     <<"a", "|", "S", "e", "r", "v", "e", "r", " ", "D", "o", "w", "n", "|">>}

\* the emails.txt files the classifier specification starts from
ClassifyFiles == UNION {[1..n -> ClassifyLines] : n \in 0..MaxTickets}

InitClassify ==
    /\ tickets = <<>>
    /\ now = 0
    /\ response = Reply("none", 0, "", <<>>)
    /\ sent = <<>>
    /\ emails_file \in ClassifyFiles
    /\ processed_file = <<>>
    /\ snapshot = <<>>
    /\ sweep = Idle
    /\ smtp = "up"
    /\ inflight = <<>>
    /\ scheduler = AutomationScheduler(FALSE)

\* intake runs over a fixed emails.txt, at one instant
NextClassify == process_emails(0)

SpecClassify == InitClassify /\ [][NextClassify]_vars

(* ------------------------ notifier specification ----------------------- *)
\* the stores the notifier specification starts from: up to MaxTickets High
\* rows, Open or Closed, created at 0..MaxCreated
NotifierStores ==
    LET Shapes == {"Open", "Closed"} \X (0..MaxCreated)
    IN  UNION {
          {[i \in 1..n |-> Row(i, "Infrastructure", "High", f[i][1], isoformat(f[i][2]))] :
              f \in [1..n -> Shapes]} : n \in 0..MaxTickets}

\* a quarter hour before the High rows created at 0 are due: those are near
\* breach, the later ones are not
InitNotifier ==
    /\ tickets \in NotifierStores
    /\ now = timedelta_hours(SLA_RESOLUTION_HOURS["High"]) - 1
    /\ response = Reply("none", 0, "", <<>>)
    /\ sent = <<>>
    /\ emails_file = <<>>
    /\ processed_file = <<>>
    /\ snapshot = <<>>
    /\ sweep = Idle
    /\ smtp \in {"up", "down"}
    /\ inflight = <<>>
    /\ scheduler = AutomationScheduler(FALSE)

\* creates and SLA checks while the mail server comes and goes, at one instant
NextNotifier ==
    \/ \E data \in LifecycleRequests :
          /\ Len(tickets) < MaxTickets
          /\ api_create_ticket(data, 0)
    \/ run_sla_check
    \/ get_tickets_near_breach
    \/ send_sla_breach_warning
    \/ get_breached_tickets
    \/ smtp_changes

SpecNotifier == InitNotifier /\ [][NextNotifier]_vars

(* ------------------------- purity specification ------------------------ *)
\* the stores the purity specification starts from: two rows of different
\* senders' categories, each High or Medium, Open or Closed, created at
\* 0..MaxCreated, so that the two rows may or may not agree in the fields the
\* SLA snapshot reads
PureStores ==
    LET Shapes == {"High", "Medium"} \X {"Open", "Closed"} \X (0..MaxCreated)
    IN  {<<Row(1, "Infrastructure", f[1], f[2], isoformat(f[3])),
           Row(2, "Printing", g[1], g[2], isoformat(g[3]))>> : f \in Shapes, g \in Shapes}

\* from a quarter hour before the High rows created at 0 are due
InitPure ==
    /\ tickets \in PureStores
    /\ now \in (timedelta_hours(SLA_RESOLUTION_HOURS["High"]) - 1)..MaxSweepNow
    /\ response = Reply("none", 0, "", <<>>)
    /\ sent = <<>>
    /\ emails_file = <<>>
    /\ processed_file = <<>>
    /\ snapshot = <<>>
    /\ sweep = Idle
    /\ smtp = "up"
    /\ inflight = <<>>
    /\ scheduler = AutomationScheduler(FALSE)

\* the tickets page asked for between reassignments and reopens, at one
\* instant
NextPure ==
    \/ tickets_page(Len(tickets), 0)
    \/ \E ticket_id \in DOMAIN tickets :
          api_assign_ticket(ticket_id, ("assigned_to" :> "alice@example.com"))
    \/ \E ticket_id \in DOMAIN tickets : api_reopen_ticket(ticket_id)

SpecPure == InitPure /\ [][NextPure]_vars

(* ---------------------- concurrency specification ---------------------- *)
\* no request of this handler is in hand
idle(handler) == \A c \in DOMAIN inflight : inflight[c].handler # handler

\* one create and one escalation at a time, each taken one store call at a
\* time, with resolves and reopens between the calls, at one instant.
\* Resolve and reopen make one store write each, after a fetch that no other
\* request can undo (no row is ever deleted), so each is one step.
NextRace ==
    \/ \E data \in LifecycleRequests \cup {("issue" :> <<>>)} :
          /\ Len(tickets) < MaxClockTickets
          /\ idle("create")
          /\ api_create_ticket_insert(data)
    \/ \E c \in DOMAIN inflight : api_create_ticket_status(c)
    \/ \E c \in DOMAIN inflight : api_create_ticket_assign(c)
    \/ \E ticket_id \in 1..(MaxClockTickets + 1) :
          /\ idle("escalate")
          /\ api_escalate_ticket_get(ticket_id)
    \/ \E c \in DOMAIN inflight : api_escalate_ticket_status(c)
    \/ \E c \in DOMAIN inflight : api_escalate_ticket_priority(c)
    \/ \E ticket_id \in 1..(MaxClockTickets + 1) : api_resolve_ticket(ticket_id)
    \/ \E ticket_id \in 1..(MaxClockTickets + 1) : api_reopen_ticket(ticket_id)

SpecRace == Init /\ [][NextRace]_vars

(* ------------------------- anchor specification ------------------------ *)
\* the stores the anchor specification starts from: one row of each
\* priority class, in each status a handler can leave, created at 0..MaxCreated
AnchorRows ==
    {Row(1, "Infrastructure", p, st, isoformat(c)) :
        p \in {"High", "Medium", "Low"},
        st \in {"Open", "Closed", "Escalated"},
        c \in 0..MaxCreated}

\* a quarter hour before a row created at 0 is due, for the High and for
\* the Medium resolution window
AnchorStarts ==
    {timedelta_hours(SLA_RESOLUTION_HOURS[p]) - 1 : p \in {"High", "Medium"}}

InitAnchor ==
    /\ tickets \in {<<r>> : r \in AnchorRows}
    /\ now \in AnchorStarts
    /\ response = Reply("none", 0, "", <<>>)
    /\ sent = <<>>
    /\ emails_file = <<>>
    /\ processed_file = <<>>
    /\ snapshot = <<>>
    /\ sweep = Idle
    /\ smtp = "up"
    /\ inflight = <<>>
    /\ scheduler = AutomationScheduler(FALSE)

\* resolves, reopens and escalations of a ticket whose deadline is near or
\* past, while the clock runs
NextAnchor ==
    \/ \E ticket_id \in 1..2 : api_resolve_ticket(ticket_id)
    \/ \E ticket_id \in 1..2 : api_reopen_ticket(ticket_id)
    \/ \E ticket_id \in 1..2 : api_escalate_ticket(ticket_id, 0)
    \/ /\ \E created \in AnchorStarts : created <= now /\ now <= created + MaxTime
       /\ Tick

SpecAnchor == InitAnchor /\ [][NextAnchor]_vars

(* ----------------------- scheduler specification ----------------------- *)
\* data/emails.txt as the scheduler specification finds it: empty, or one line
SchedulerFiles == {<<>>, <<<<"a", "|", "V", "P", "N", "|">>>>}

\* the process starts with auto-processing enabled or not, over a store of
\* High rows a quarter hour before those created at 0 are due
InitScheduler ==
    /\ tickets \in NotifierStores
    /\ now = timedelta_hours(SLA_RESOLUTION_HOURS["High"]) - 1
    /\ response = Reply("none", 0, "", <<>>)
    /\ sent = <<>>
    /\ emails_file \in SchedulerFiles
    /\ processed_file = <<>>
    /\ snapshot = <<>>
    /\ sweep = Idle
    /\ smtp = "up"
    /\ inflight = <<>>
    /\ scheduler \in {AutomationScheduler(auto) : auto \in BOOLEAN}

\* start and shutdown called in any order, up to MaxTime starts that go
\* through, and the two jobs run whenever the scheduler finds them due
NextScheduler ==
    \/ \E sla_check_func \in BOOLEAN :
          /\ scheduler.atexit < MaxTime
          /\ start(sla_check_func)
    \/ shutdown
    \/ /\ email_processor
       /\ Len(tickets') <= MaxTickets
    \/ sla_checker
    \/ get_tickets_near_breach
    \/ send_sla_breach_warning
    \/ get_breached_tickets

SpecScheduler == InitScheduler /\ [][NextScheduler]_vars

(* ------------------------------- claims -------------------------------- *)
\* ids of the tickets the last create request or intake run created
Created ==
    IF response.op = "create" /\ response.error = "" THEN {response.id}
    ELSE IF response.op = "process" THEN (Len(tickets) - response.id + 1)..Len(tickets)
    ELSE {}

\* C1: after create completes (the API or the intake loop), the stored ticket
\* has status = initial_status(priority) and assigned_to = route(category),
\* with the General entry for a category outside the team table.
C1_CreateStoresPolicyStatusAndRoute ==
    \A id \in Created :
        /\ tickets[id].status = resolve_status(tickets[id].priority)
        /\ tickets[id].assigned_to = assign_ticket(tickets[id])

\* C2: every stored ticket has priority in {Low, Medium, High} and status in
\* {New, Open, Closed, Escalated}: a priority outside the enumeration is
\* stored as the default, not as given.
C2_ClosedEnumerations ==
    \A id \in DOMAIN tickets :
        /\ tickets[id].priority \in {"Low", "Medium", "High"}
        /\ tickets[id].status \in {"New", "Open", "Closed", "Escalated"}

\* C3: escalate on an existing ticket, whatever its status and priority were,
\* leaves it stored with status Escalated and priority High.
C3_EscalateSetsEscalatedHigh ==
    (response.op = "escalate" /\ response.fetched # <<>>) =>
        /\ response.error = ""
        /\ tickets[response.id].status = "Escalated"
        /\ tickets[response.id].priority = "High"

\* escalate has been applied to a ticket that was Closed with priority Low
C3_Witness ==
    /\ response.op = "escalate"
    /\ response.fetched # <<>>
    /\ response.fetched[1].status = "Closed"
    /\ response.fetched[1].priority = "Low"
    /\ tickets[response.id].priority = "High"

\* C4: resolve, escalate, reopen and reassign with an id that is not stored
\* answer NotFound, change no stored ticket and call no notifier.
C4_UnknownIdIsNotFound ==
    [][(/\ response' # response
        /\ response'.op \in {"resolve", "escalate", "reopen", "assign"}
        /\ response'.id \notin DOMAIN tickets)
       => (/\ response'.error = "Ticket not found"
           /\ tickets' = tickets
           /\ sent' = <<>>)]_vars

\* reassign has been refused for an id the non-empty store does not hold
C4_Witness ==
    /\ response.op = "assign"
    /\ response.error = "Ticket not found"
    /\ tickets # <<>>
    /\ response.id \notin DOMAIN tickets

\* C5: reassign of an existing ticket with an empty new owner answers
\* InvalidArgument and leaves every stored field, updated_at included, as it was.
C5_EmptyOwnerIsInvalidArgument ==
    [][\A id \in DOMAIN tickets, data \in AssignRequests :
          (Get(data, "assigned_to", "") = "" /\ api_assign_ticket(id, data))
          => (response'.error = "assigned_to required" /\ tickets' = tickets)]_vars

\* an empty reassignment of a stored, assigned ticket has been refused
C5_Witness ==
    /\ response.op = "assign"
    /\ response.error = "assigned_to required"
    /\ response.fetched # <<>>
    /\ tickets[response.id] = response.fetched[1]
    /\ tickets[response.id].assigned_to # ""

\* C6: no status is terminal: on every stored ticket, in whichever of Open,
\* Closed, Escalated it is, resolve, escalate and reopen are each enabled and
\* move it to Closed, Escalated and Open.
C6_NoStatusIsTerminal ==
    \A id \in DOMAIN tickets :
        /\ tickets[id].status \in {"Open", "Closed", "Escalated"}
        /\ ENABLED (api_resolve_ticket(id) /\ tickets'[id].status = "Closed")
        /\ ENABLED (api_escalate_ticket(id, 0) /\ tickets'[id].status = "Escalated")
        /\ ENABLED (api_reopen_ticket(id) /\ tickets'[id].status = "Open")

\* a Closed ticket has been reopened while another ticket is Escalated
C6_Witness ==
    /\ response.op = "reopen"
    /\ response.fetched # <<>>
    /\ response.fetched[1].status = "Closed"
    /\ tickets[response.id].status = "Open"
    /\ \E id \in DOMAIN tickets : tickets[id].status = "Escalated"

\* a step that wrote status, priority or assignment of ticket id, or created it
Mutates(id) ==
    \/ id \notin DOMAIN tickets
    \/ tickets'[id].status # tickets[id].status
    \/ tickets'[id].priority # tickets[id].priority
    \/ tickets'[id].assigned_to # tickets[id].assigned_to
    \/ /\ response' # response
       /\ response'.op \in {"resolve", "escalate", "reopen", "assign"}
       /\ response'.error = ""
       /\ response'.id = id

\* C7: updated_at of a ticket never decreases, is never earlier than its
\* created_at, and is the current instant after every mutation of status,
\* priority or assignment, the status write of create included.
C7_UpdatedAtMonotoneAndRefreshed ==
    /\ [](\A id \in DOMAIN tickets :
            tickets[id].updated_at.at >= tickets[id].created_at.at)
    /\ [][\A id \in DOMAIN tickets' :
            /\ id \in DOMAIN tickets =>
                  tickets'[id].updated_at.at >= tickets[id].updated_at.at
            /\ Mutates(id) => tickets'[id].updated_at = isoformat(now')]_vars

\* escalate took time between its two writes and the ticket carries the later one
C7_Witness ==
    /\ response.op = "escalate"
    /\ response.fetched # <<>>
    /\ tickets[response.id].updated_at.at > response.fetched[1].updated_at.at
    /\ tickets[response.id].updated_at.at > tickets[response.id].created_at.at
    /\ tickets[response.id].updated_at = isoformat(now)

\* C8: for a ticket whose status is Closed or Resolved, at every clock reading
\* and for every priority and created_at, the snapshot has response_ok and
\* resolution_ok true, breached false, and time_to_breach the 999 day
\* sentinel, which is not below the 30 minute and 1 hour thresholds.
C8_TerminalNeverBreaches ==
    (snapshot # <<>> /\ snapshot[1].ticket.status \in {"Closed", "Resolved"}) =>
        LET sla == snapshot[1].sla IN
        /\ sla.response_ok
        /\ sla.resolution_ok
        /\ ~sla.breached
        /\ sla.time_to_breach = 999 * 24 * Hour
        /\ ~(sla.time_to_breach < timedelta_minutes(30))
        /\ ~(sla.time_to_breach < timedelta_hours(1))

\* the snapshot of a Closed High ticket was taken after its 4 hour window
C8_Witness ==
    /\ snapshot # <<>>
    /\ snapshot[1].ticket.status = "Closed"
    /\ snapshot[1].ticket.priority = "High"
    /\ snapshot[1].ticket.created_at.valid
    /\ snapshot[1].clock > snapshot[1].ticket.created_at.at + 4 * Hour
    /\ ~snapshot[1].sla.breached

\* C9: for a High ticket created at T that is not Closed or Resolved,
\* resolution_due is T + 4 hours, resolution_ok is exactly now < resolution_due
\* and breached is exactly its negation: in time before T + 4h, breached after.
C9_HighDeadlineArithmetic ==
    (/\ snapshot # <<>>
     /\ snapshot[1].ticket.priority = "High"
     /\ snapshot[1].ticket.status \notin {"Closed", "Resolved"}
     /\ snapshot[1].ticket.created_at.valid) =>
        LET sla == snapshot[1].sla
            clock == snapshot[1].clock
            due == snapshot[1].ticket.created_at.at + 4 * Hour
        IN  /\ sla.resolution_due = isoformat(due)
            /\ clock < due => (sla.resolution_ok /\ ~sla.breached)
            /\ clock > due => (~sla.resolution_ok /\ sla.breached)
            /\ sla.resolution_ok = (clock < due)
            /\ sla.breached = ~sla.resolution_ok

\* the snapshot of an Open High ticket was taken a quarter hour after T + 4h
C9_Witness ==
    /\ snapshot # <<>>
    /\ snapshot[1].ticket.priority = "High"
    /\ snapshot[1].ticket.status = "Open"
    /\ snapshot[1].ticket.created_at.valid
    /\ snapshot[1].clock = snapshot[1].ticket.created_at.at + 4 * Hour + 1
    /\ snapshot[1].sla.breached

\* ids of the tickets in a list the sweep built
Ids(list) == {list[k].ticket.id : k \in 1..Len(list)}

\* C10: a sweep tick that began at instant n counts every non-terminal ticket
\* due after n by less than 30 minutes in at_risk and not in breached, every
\* non-terminal ticket due before n in breached, a Closed ticket in neither,
\* and returns the sizes of the two sets.
C10_SweepCounts ==
    sweep.pc = "done" =>
        /\ \A id \in DOMAIN tickets :
              LET ticket == tickets[id]
                  due == calculate_sla_due(ticket.priority, ticket.created_at,
                                           sweep.started).resolution_due.at
                  open == ticket.status \notin {"Closed", "Resolved"}
              IN  /\ (open /\ due > sweep.started
                           /\ due - sweep.started < timedelta_minutes(30))
                        => (id \in Ids(sweep.at_risk) /\ id \notin Ids(sweep.breached))
                  /\ (open /\ due < sweep.started) => id \in Ids(sweep.breached)
                  /\ ticket.status = "Closed"
                        => (id \notin Ids(sweep.at_risk) /\ id \notin Ids(sweep.breached))
        /\ sweep.result = <<[at_risk |-> Cardinality(Ids(sweep.at_risk)),
                             breached |-> Cardinality(Ids(sweep.breached))]>>

\* the near-breach warnings the sweep sent for ticket id
Warnings(id) == {k \in 1..Len(sent) : sent[k].kind = "sla_warning" /\ sent[k].id = id}

\* C11: a sweep tick that began at instant n keeps every non-terminal ticket
\* whose resolution_due lies before n out of the near-breach list and sends no
\* warning for it, and sends exactly one warning per near-breach ticket.
C11_SweepPartitions ==
    sweep.pc = "done" =>
        /\ \A id \in DOMAIN tickets :
              LET ticket == tickets[id]
                  due == calculate_sla_due(ticket.priority, ticket.created_at,
                                           sweep.started).resolution_due.at
              IN  (ticket.status \notin {"Closed", "Resolved"} /\ due < sweep.started)
                     => (id \notin Ids(sweep.at_risk) /\ Warnings(id) = {})
        /\ \A id \in Ids(sweep.at_risk) : Cardinality(Warnings(id)) = 1

\* C12: in every state reached by create, resolve, escalate, reopen and
\* reassign, the workload has, for every address a stored ticket is assigned
\* to, the number of stored tickets with that assigned_to that are neither
\* Closed nor Resolved.
C12_WorkloadCountsByOwner ==
    LET workload == get_team_workload(tickets) IN
    \A id \in DOMAIN tickets :
        LET owner == tickets[id].assigned_to IN
        /\ owner \in DOMAIN workload
        /\ workload[owner] =
              Cardinality({i \in DOMAIN tickets :
                              /\ tickets[i].assigned_to = owner
                              /\ tickets[i].status \notin {"Closed", "Resolved"}})

\* C13 as stated: the initial status is Escalated for High, Open for Medium,
\* Closed for Low, and Open for every other priority.
C13_InitialStatusExactNames ==
    \A id \in DOMAIN tickets :
        tickets[id].status =
            (CASE tickets[id].priority = "High" -> "Escalated"
               [] tickets[id].priority = "Medium" -> "Open"
               [] tickets[id].priority = "Low" -> "Closed"
               [] OTHER -> "Open")

\* C13 amended: the initial status is decided by the priority in any letter
\* case: Escalated for high, Closed for low, and Open for medium and for every
\* other priority, the empty string and null included.
C13_InitialStatusAnyCase ==
    \A id \in DOMAIN tickets :
        tickets[id].status =
            (CASE tickets[id].priority \in {"High", "HIGH", "high"} -> "Escalated"
               [] tickets[id].priority \in {"Low", "LOW", "low"} -> "Closed"
               [] tickets[id].priority \in {"Medium", "MEDIUM"} -> "Open"
               [] OTHER -> "Open")

C13_Witness ==
    /\ \E id \in DOMAIN tickets :
          tickets[id].priority = "HIGH" /\ tickets[id].status = "Escalated"
    /\ \E id \in DOMAIN tickets :
          tickets[id].priority = None /\ tickets[id].status = "Open"

\* the text the intake loop classifies for a line of emails.txt
Summary(line) ==
    LET email == parse_email_line(strip(line))
    IN  lower_text(email.subject \o <<"\n">> \o email.body)

\* no keyword of any rule occurs in text
NoKeyword(text) ==
    \A r \in 1..Len(KEYWORD_MAP) :
        \A j \in 1..Len(KEYWORD_MAP[r][1]) : ~contains(KEYWORD_MAP[r][1][j], text)

\* the (category, priority) pairs of the rule table and of the default
RulePairs == {KEYWORD_MAP[r][2] : r \in 1..Len(KEYWORD_MAP)} \cup {<<"General", "Medium">>}

\* the pair classify returned for the line that became ticket k
Classified(k) == <<tickets[k].category, tickets[k].priority>>

\* C14: after an intake run over a file, every line was classified (one
\* ticket per line, with a pair of the table or the default), lines with the
\* same text got the same pair, and a line whose text contains no rule keyword
\* got (General, Medium).
C14_ClassifyTotalDeterministic ==
    response.op = "process" =>
        /\ Len(tickets) = Len(emails_file)
        /\ \A k \in DOMAIN tickets :
              /\ Classified(k) \in RulePairs
              /\ NoKeyword(Summary(emails_file[k])) => Classified(k) = <<"General", "Medium">>
              /\ \A j \in DOMAIN tickets :
                    Summary(emails_file[j]) = Summary(emails_file[k])
                       => Classified(j) = Classified(k)

C14_Witness ==
    /\ response.op = "process"
    /\ \E k, j \in DOMAIN tickets :
          /\ k # j
          /\ emails_file[k] # emails_file[j]
          /\ Summary(emails_file[j]) = Summary(emails_file[k])
          /\ NoKeyword(Summary(emails_file[k]))
          /\ Classified(k) = <<"General", "Medium">>

\* word occurs somewhere in text
Occurs(word, text) ==
    \E i \in 0..(Len(text) - Len(word)) : \A j \in 1..Len(word) : text[i + j] = word[j]

\* the line that became ticket k has both "outage" and "password" in its text
OutageAndPassword(k) ==
    /\ Occurs(<<"o", "u", "t", "a", "g", "e">>, Summary(emails_file[k]))
    /\ Occurs(<<"p", "a", "s", "s", "w", "o", "r", "d">>, Summary(emails_file[k]))

\* C15 as stated: a text containing both "outage" and "password" is
\* classified as (Infrastructure, High).
C15_OutageBeatsPassword ==
    response.op = "process" =>
        \A k \in DOMAIN tickets :
            OutageAndPassword(k) => Classified(k) = <<"Infrastructure", "High">>

\* C15 amended: a text containing both "outage" and "password" is classified
\* by rule 1, as (Access Issue, Low), wherever the two words stand.
C15_PasswordBeatsOutage ==
    response.op = "process" =>
        \A k \in DOMAIN tickets :
            OutageAndPassword(k) => Classified(k) = <<"Access Issue", "Low">>

C15_Witness ==
    /\ response.op = "process"
    /\ \E k \in DOMAIN tickets :
          /\ OutageAndPassword(k)
          /\ tickets[k].issue = <<"o", "u", "t", "a", "g", "e">>
          /\ Classified(k) = <<"Access Issue", "Low">>

\* route(category) as the claim gives it: the table entry, the General entry
\* for a category outside the table
Route(category) ==
    IF category \in DOMAIN TEAM_ASSIGNMENTS THEN TEAM_ASSIGNMENTS[category]
    ELSE TEAM_ASSIGNMENTS["General"]

\* C16: for every ticket a create stored, route gives the table entry of its
\* category or the General entry; the owner create persisted, the address of
\* the escalated notice create sent, and the address the escalate handler and
\* the sweep warning look up for the ticket are all that result.
C16_OneRouteForEveryCaller ==
    \A id \in Created :
        LET ticket == tickets[id]
            team == assign_ticket(ticket)
        IN  /\ team = Route(ticket.category)
            /\ ticket.assigned_to = team
            /\ \A k \in 1..Len(sent) :
                  (sent[k].kind = "escalated" /\ sent[k].id = id) => sent[k].to = team
            /\ Get(TEAM_ASSIGNMENTS, ticket.category, "helpdesk@example.com") = team

\* the (response, resolution) windows the claim gives for a priority
Windows(priority) ==
    CASE priority = "High" -> <<1 * Hour, 4 * Hour>>
      [] priority = "Medium" -> <<4 * Hour, 24 * Hour>>
      [] priority = "Low" -> <<24 * Hour, 72 * Hour>>
      [] OTHER -> <<24 * Hour, 72 * Hour>>

\* C17: the due dates of every snapshot are created_at plus the windows of the
\* ticket's priority (1h/4h High, 4h/24h Medium, 24h/72h Low and any other
\* value); when created_at does not parse they are an instant read during the
\* call plus the windows, and the call still returns.
C17_DueDatesByPriority ==
    snapshot # <<>> =>
        LET ticket == snapshot[1].ticket
            sla == snapshot[1].sla
            bases == IF ticket.created_at.valid THEN {ticket.created_at.at}
                     ELSE snapshot[1].clock..now
        IN  \E created \in bases :
                /\ sla.response_due = isoformat(created + Windows(ticket.priority)[1])
                /\ sla.resolution_due = isoformat(created + Windows(ticket.priority)[2])

C17_Witness ==
    /\ snapshot # <<>>
    /\ snapshot[1].ticket.priority = "Urgent"
    /\ ~snapshot[1].ticket.created_at.valid
    /\ now > snapshot[1].clock
    /\ snapshot[1].sla.response_due = isoformat(now + 24 * Hour)
    /\ snapshot[1].sla.resolution_due = isoformat(now + 72 * Hour)

\* the notifier calls of the given kind the last handler made for ticket id
Notices(kind, id) == {k \in 1..Len(sent) : sent[k].kind = kind /\ sent[k].id = id}

\* C18: for every ticket a create stored (the API or the intake loop), the
\* notifier was called exactly once with "created", addressed to the sender;
\* exactly once with "resolved" if the stored status is Closed and not at all
\* otherwise; exactly once with "escalated", addressed to the routed team, if
\* the stored status is Escalated and not at all otherwise.
C18_CreateNotifications ==
    \A id \in Created :
        LET ticket == tickets[id] IN
        /\ Cardinality(Notices("created", id)) = 1
        /\ \A k \in Notices("created", id) : sent[k].to = ticket.sender
        /\ Cardinality(Notices("resolved", id)) = IF ticket.status = "Closed" THEN 1 ELSE 0
        /\ Cardinality(Notices("escalated", id)) = IF ticket.status = "Escalated" THEN 1 ELSE 0
        /\ \A k \in Notices("escalated", id) : sent[k].to = assign_ticket(ticket)
        /\ ticket.status \in {"Open", "Closed", "Escalated"}

\* an intake run created a Closed and an Escalated ticket and notified for both
C18_Witness ==
    /\ response.op = "process"
    /\ \E id \in Created : tickets[id].status = "Closed" /\ Notices("resolved", id) # {}
    /\ \E id \in Created : tickets[id].status = "Escalated" /\ Notices("escalated", id) # {}

\* C19: a notifier call that is not delivered aborts nothing.  A create still
\* answers with the id of a stored ticket that has its policy status; a
\* warning step of the SLA check, delivered or not, goes on to the next
\* near-breach ticket with the warning attempted; a check under way can always
\* take its next step; and a finished check has examined every row for breach
\* and has returned its counts.
C19_NotifierFailureAbortsNothing ==
    /\ []((response.op = "create" /\ response.error = "") =>
            /\ response.id \in DOMAIN tickets
            /\ tickets[response.id].status =
                  (CASE tickets[response.id].priority = "High" -> "Escalated"
                     [] tickets[response.id].priority = "Low" -> "Closed"
                     [] OTHER -> "Open"))
    /\ [](sweep.pc \in {"near", "warn", "breach"} =>
            ENABLED (get_tickets_near_breach \/ send_sla_breach_warning
                        \/ get_breached_tickets))
    /\ [](sweep.pc = "done" =>
            /\ sweep.i = Len(sweep.rows) + 1
            /\ sweep.result = <<[at_risk |-> Len(sweep.at_risk),
                                 breached |-> Len(sweep.breached)]>>)
    /\ [][(sweep.pc = "warn" /\ sweep.i <= Len(sweep.at_risk) /\ sweep' # sweep) =>
            /\ sweep'.pc = "warn"
            /\ sweep'.i = sweep.i + 1
            /\ Len(sent') = Len(sent) + 1
            /\ sent'[Len(sent')].kind = "sla_warning"
            /\ sent'[Len(sent')].id = sweep.at_risk[sweep.i].ticket.id]_vars

\* a check finished after its first warning was not delivered: the second
\* near-breach ticket was warned about all the same
C19_Witness ==
    /\ sweep.pc = "done"
    /\ Len(sent) = 2
    /\ ~sent[1].delivered
    /\ sent[2].kind = "sla_warning"
    /\ sent[2].id # sent[1].id
    /\ sweep.result = <<[at_risk |-> 2, breached |-> 0]>>

\* the ids of the stored tickets
StoredIds(store) == {store[i].id : i \in DOMAIN store}

\* C20: stored ids are pairwise distinct; no step removes a stored id; an id a
\* step adds, and the id a successful create returns, is in the store and is
\* greater than every id stored before, so ids are never reused and the ids
\* of successive creates strictly increase.
C20_IdsKeptAndIncreasing ==
    /\ [](\A i, j \in DOMAIN tickets : i # j => tickets[i].id # tickets[j].id)
    /\ [][/\ StoredIds(tickets) \subseteq StoredIds(tickets')
          /\ \A id \in StoredIds(tickets') \ StoredIds(tickets) :
                \A old \in StoredIds(tickets) : id > old
          /\ (response'.op = "create" /\ response'.error = "") =>
                /\ response'.id \in StoredIds(tickets')
                /\ \A old \in StoredIds(tickets) : response'.id > old]_vars

\* two creates returned 1 and 2, and after a later resolve both are stored
C20_Witness ==
    /\ response.op = "resolve"
    /\ response.error = ""
    /\ StoredIds(tickets) = {1, 2}
    /\ Len(tickets) = 2

\* two evaluations read the same priority, created_at and status at the same
\* clock reading
SameInputs(a, b) ==
    /\ a.ticket.priority = b.ticket.priority
    /\ a.ticket.created_at = b.ticket.created_at
    /\ a.ticket.status = b.ticket.status
    /\ a.clock = b.clock

HalfEscalated ==
    {c \in DOMAIN inflight :
        inflight[c].handler = "escalate" /\ inflight[c].line = "priority"}

\* C22: an escalation is one step on its ticket.  While an escalation is
\* between its status write and its priority write, no state shows its
\* ticket Escalated with a priority other than High; and when an escalation
\* returns, its ticket is Escalated with priority High.
C22_EscalateIsAtomic ==
    /\ [](\A c \in HalfEscalated :
            LET ticket == tickets[inflight[c].ticket_id]
            IN  ~(ticket.status = "Escalated" /\ ticket.priority # "High"))
    /\ [][\A c \in HalfEscalated :
            inflight' = returned(c) =>
                LET ticket == tickets'[inflight[c].ticket_id]
                IN  ticket.status = "Escalated" /\ ticket.priority = "High"]_vars

\* the clock reading an entry of a sweep list was tested against: its
\* ticket is not terminal, so time_to_breach is resolution_due less the reading
ReadAt(entry) == entry.sla_status.resolution_due.at - entry.sla_status.time_to_breach

\* the entries of the two lists of the sweep in progress
Scanned ==
    {sweep.at_risk[k] : k \in 1..Len(sweep.at_risk)}
        \cup {sweep.breached[k] : k \in 1..Len(sweep.breached)}

\* C23: all deadline tests of one sweep tick are made against one instant:
\* every ticket the tick put in its near-breach list or in its breached list
\* was tested against the same clock reading, also when the clock moves
\* while the tick runs.
C23_OneNowPerTick ==
    \A a \in Scanned, b \in Scanned : ReadAt(a) = ReadAt(b)

\* C24: the SLA check writes nothing.  Every step of a check, whatever other
\* requests run between its steps and wherever it stops, leaves every stored
\* ticket, the two intake files, the clock and the last response as they
\* were; each ticket on one of its lists is still stored as the check read
\* it; what a step changes is the check's own position, lists and counts and
\* the notifications sent.
C24_SweepWritesNothing ==
    /\ [][sweep' # sweep =>
            /\ tickets' = tickets
            /\ UNCHANGED <<files, now, response, snapshot, smtp, inflight, scheduler>>]_vars
    /\ [](\A entry \in Scanned : tickets[entry.ticket.id] = entry.ticket)

\* a check that listed a near-breach ticket and sent its warning has
\* finished, a create having stored a ticket while it ran
C24_Witness ==
    /\ sweep.pc = "done"
    /\ sweep.result = <<[at_risk |-> 1, breached |-> 0]>>
    /\ Len(sweep.rows) = 1
    /\ Len(tickets) = 2
    /\ response.op = "create"
    /\ tickets[sweep.at_risk[1].ticket.id].status = "Open"

\* the creates in hand at the given line
Creating(line) ==
    {c \in DOMAIN inflight : inflight[c].handler = "create" /\ inflight[c].line = line}

\* C25: New is transient.  A stored ticket has status New only while the
\* create that inserted it has not yet made its policy-status write; that
\* write, and the return of the create, leave the ticket Open, Closed or
\* Escalated; and no step gives a ticket that is not New the status New.
C25_NewIsTransient ==
    /\ [](\A id \in DOMAIN tickets :
            tickets[id].status = "New" =>
                \E c \in Creating("status") : inflight[c].ticket_id = id)
    /\ [][/\ \A c \in Creating("status") :
                inflight' = [inflight EXCEPT ![c].line = "assign"] =>
                    tickets'[inflight[c].ticket_id].status \in {"Open", "Closed", "Escalated"}
          /\ \A c \in Creating("assign") :
                inflight' = returned(c) =>
                    tickets'[inflight[c].ticket_id].status \in {"Open", "Closed", "Escalated"}
          /\ \A id \in DOMAIN tickets :
                tickets[id].status # "New" => tickets'[id].status # "New"]_vars

\* a create has returned whose ticket an escalation wrote to while the create
\* was in hand: the ticket is Open with priority High
C25_Witness ==
    /\ response.op = "create" /\ response.error = ""
    /\ inflight = <<>>
    /\ scheduler = AutomationScheduler(FALSE)
    /\ tickets[response.id].status = "Open"
    /\ tickets[response.id].priority = "High"

\* the rules of the table with a keyword occurring in text
Matching(text) ==
    {r \in 1..Len(KEYWORD_MAP) :
        \E j \in 1..Len(KEYWORD_MAP[r][1]) : Occurs(KEYWORD_MAP[r][1][j], text)}

\* C26: after an intake run, every ticket has the (category, priority) of the
\* first rule in table order with at least one keyword occurring in the
\* lower-cased text of its line, and has the pair of a rule only when no
\* keyword of an earlier rule occurs in that text.
C26_FirstMatchingRuleWins ==
    response.op = "process" =>
        \A k \in DOMAIN tickets :
            LET text == Summary(emails_file[k]) IN
            /\ Matching(text) # {} =>
                  \E r \in Matching(text) :
                      /\ \A q \in Matching(text) : r <= q
                      /\ Classified(k) = KEYWORD_MAP[r][2]
            /\ \A r \in 1..Len(KEYWORD_MAP) :
                  Classified(k) = KEYWORD_MAP[r][2] =>
                      /\ r \in Matching(text)
                      /\ \A q \in 1..(r - 1) : q \notin Matching(text)

\* a line with a keyword of rule 4 in its subject and one of rule 2 in its
\* body went to rule 2, and a line whose only keyword stands inside a longer
\* word ("down" in "download") went to the rule of that keyword
C26_Witness ==
    /\ response.op = "process"
    /\ \E k, j \in DOMAIN tickets :
          /\ Matching(Summary(emails_file[k])) = {2, 4}
          /\ Classified(k) = <<"Networking", "Medium">>
          /\ tickets[j].issue = <<"d", "o", "w", "n", "l", "o", "a", "d">>
          /\ Matching(Summary(emails_file[j])) = {3}
          /\ Classified(j) = <<"Infrastructure", "High">>

\* the content hashes of the emails in emails.txt
Hashes == {email_hash(strip(emails_file[i])) : i \in DOMAIN emails_file}

\* C27: intake creates at most one ticket per distinct email: after any
\* number of intake runs over a file, with no reset of the processed list,
\* there are no more tickets than distinct content hashes among the lines,
\* and no hash is recorded twice as processed.
C27_OneTicketPerEmail ==
    /\ Len(tickets) <= Cardinality(Hashes)
    /\ \A i, j \in DOMAIN processed_file :
          i # j => processed_file[i] # processed_file[j]

\* the due dates at the given (response, resolution) windows after created_at
DueAfter(created_at, windows) ==
    [response_due |-> isoformat(created_at.at + windows[1]),
     resolution_due |-> isoformat(created_at.at + windows[2])]

\* C28: the priority class that gave a created ticket its initial status
\* also gives it its SLA windows: a ticket created Escalated is due 1h / 4h
\* after created_at, a ticket created Open from a priority spelled Medium in
\* any letter case 4h / 24h after, a ticket created Closed 24h / 72h after.
C28_OnePriorityClass ==
    \A id \in DOMAIN tickets :
        LET ticket == tickets[id]
            sla == calculate_sla_due(ticket.priority, ticket.created_at, now)
        IN  /\ ticket.status = "Escalated" =>
                  sla = DueAfter(ticket.created_at, <<1 * Hour, 4 * Hour>>)
            /\ (ticket.status = "Open" /\ ticket.priority \in {"Medium", "MEDIUM"}) =>
                  sla = DueAfter(ticket.created_at, <<4 * Hour, 24 * Hour>>)
            /\ ticket.status = "Closed" =>
                  sla = DueAfter(ticket.created_at, <<24 * Hour, 72 * Hour>>)

\* C29: the SLA clock of a ticket is never started again.  No step changes a
\* stored created_at; and after a reopen or an escalation, at that instant
\* and at every later one until the next request, the ticket's snapshot is
\* breached exactly when the clock is at or past the created_at the handler
\* found plus the resolution window of the ticket's priority now (4h after
\* an escalation).
C29_DeadlinesAnchoredToCreatedAt ==
    /\ [][\A id \in DOMAIN tickets : tickets'[id].created_at = tickets[id].created_at]_vars
    /\ []((response.op \in {"reopen", "escalate"} /\ response.error = "") =>
            LET ticket == tickets[response.id]
                created == response.fetched[1].created_at.at
                window == Windows(ticket.priority)[2]
            IN  /\ response.op = "escalate" => window = 4 * Hour
                /\ check_sla_status(ticket, now, now).breached <=> now >= created + window)

\* a Closed Medium ticket, a day from its deadline, was escalated more than
\* four hours after it was created: its snapshot is breached at once
C29_Witness ==
    /\ response.op = "escalate" /\ response.error = ""
    /\ response.fetched[1].priority = "Medium"
    /\ response.fetched[1].status = "Closed"
    /\ tickets[response.id].updated_at = isoformat(now)
    /\ now < response.fetched[1].created_at.at + 24 * Hour
    /\ check_sla_status(tickets[response.id], now, now).breached

\* C30: what the manual transitions leave alone.  No step changes the id,
\* created_at, sender, issue, category or message id of a stored ticket; a
\* request changes no ticket other than the one it names, and none when it
\* answers with an error; resolve and reopen leave priority and assigned_to
\* as they were, escalate leaves assigned_to, reassign leaves status and
\* priority.
C30_ManualTransitionFrame ==
    [][\A id \in DOMAIN tickets :
          LET old == tickets[id]
              new == tickets'[id]
          IN  /\ new.id = old.id
              /\ new.created_at = old.created_at
              /\ new.sender = old.sender
              /\ new.issue = old.issue
              /\ new.category = old.category
              /\ new.message_id = old.message_id
              /\ (id # response'.id \/ response'.error # "") => new = old
              /\ response'.op \in {"resolve", "reopen"} =>
                    new.priority = old.priority /\ new.assigned_to = old.assigned_to
              /\ response'.op = "escalate" => new.assigned_to = old.assigned_to
              /\ response'.op = "assign" =>
                    new.status = old.status /\ new.priority = old.priority]_vars

\* a ticket that had been reassigned was escalated and is still with the
\* person it was reassigned to, next to a second ticket
C30_Witness ==
    /\ response.op = "escalate" /\ response.error = ""
    /\ response.fetched[1].priority # "High"
    /\ response.fetched[1].assigned_to = "alice@example.com"
    /\ tickets[response.id].assigned_to = "alice@example.com"
    /\ tickets[response.id].status = "Escalated"
    /\ tickets[response.id].priority = "High"
    /\ Len(tickets) = 2

\* the jobs registered under this id
Jobs(id) == {k \in DOMAIN scheduler.jobs : scheduler.jobs[k] = id}

\* C31: the start/shutdown protocol of the scheduler.  There is never more
\* than one email-processing job nor more than one SLA-check job; a step
\* that finds the scheduler started and leaves it started, a start among
\* them, changes nothing of it; a step that finds it not started and leaves
\* it so, a shutdown among them, changes nothing of it; the SLA-check job
\* exists only with auto-processing enabled and after a start; and with
\* auto-processing disabled the scheduler stays as constructed and no SLA
\* check and no intake run is ever fired.
C31_SchedulerProtocol ==
    /\ [](Cardinality(Jobs("email_processor")) <= 1 /\ Cardinality(Jobs("sla_checker")) <= 1)
    /\ [][(scheduler.started /\ scheduler'.started) => scheduler' = scheduler]_vars
    /\ [][(~scheduler.started /\ ~scheduler'.started) => scheduler' = scheduler]_vars
    /\ [](Jobs("sla_checker") # {} => (scheduler.auto /\ scheduler.atexit >= 1))
    /\ [](~scheduler.auto =>
            /\ scheduler = AutomationScheduler(FALSE)
            /\ sweep = Idle
            /\ response.op = "none")

\* started, shut down and started again: one job of each kind, both have run
C31_Witness ==
    /\ scheduler.started /\ scheduler.running
    /\ scheduler.atexit = 2
    /\ scheduler.jobs = <<"email_processor", "sla_checker">>
    /\ sweep.pc = "done"
    /\ response.op = "process"

====
